---- MODULE Spec2Model ----
(***************************************************************************)
(* A model of proxmox-autosnap.py: the PID-file lock (running), guest      *)
(* enumeration and selection (get_vmids, get_vmids_by_tags,                *)
(* get_filtered_vmids), snapshot naming (create_snapshot), retention       *)
(* (remove_snapshot), replication (zfs_send) and the dispatch in main.     *)
(* Strings are sequences of one-character strings, so that formatting,     *)
(* the regular expression and the sort key are computed, not assumed.      *)
(***************************************************************************)
EXTENDS Integers, Sequences, FiniteSets, TLC

(***************************************************************************)
(* Strings                                                                 *)
(***************************************************************************)

\* The characters the model uses, in code point order (str comparison).
Alphabet ==
    <<"-", "0", "1", "2", "3", "4", "5", "6", "7", "8", "9", "T", "_",
      "a", "b", "c", "d", "e", "f", "g", "h", "i", "j", "k", "l", "m",
      "n", "o", "p", "q", "r", "s", "t", "u", "v", "w", "x", "y", "z">>

CodePoint == [c \in {Alphabet[i] : i \in 1..Len(Alphabet)} |->
                 CHOOSE i \in 1..Len(Alphabet) : Alphabet[i] = c]

Ord(c) == CodePoint[c]

\* Python's str "<": the first differing character decides, a proper prefix is smaller.
StrLess(a, b) ==
    \/ \E i \in 1..Len(a) :
          /\ i <= Len(b)
          /\ SubSeq(a, 1, i - 1) = SubSeq(b, 1, i - 1)
          /\ Ord(a[i]) < Ord(b[i])
    \/ /\ Len(a) < Len(b)
       /\ a = SubSeq(b, 1, Len(a))

RECURSIVE Remove(_, _)
\* str.replace(c, '')
Remove(s, c) ==
    IF s = <<>> THEN <<>>
    ELSE (IF Head(s) = c THEN <<>> ELSE <<Head(s)>>) \o Remove(Tail(s), c)

Digit(n) == Alphabet[n + 2]

Pad2(n) == <<Digit((n \div 10) % 10), Digit(n % 10)>>

Pad4(n) == Pad2(n \div 100) \o Pad2(n % 100)

(***************************************************************************)
(* Snapshot names: create_snapshot                                         *)
(***************************************************************************)

LabelChars(label) ==
    CASE label = "minute"  -> <<"m", "i", "n", "u", "t", "e">>
      [] label = "hourly"  -> <<"h", "o", "u", "r", "l", "y">>
      [] label = "daily"   -> <<"d", "a", "i", "l", "y">>
      [] label = "weekly"  -> <<"w", "e", "e", "k", "l", "y">>
      [] label = "monthly" -> <<"m", "o", "n", "t", "h", "l", "y">>

Auto == <<"a", "u", "t", "o">>

\* An instant is [Y, m, d, secs]: a date and the second of the day.
Hour(t) == t.secs \div 3600
Minute(t) == (t.secs % 3600) \div 60
Second(t) == t.secs % 60

\* datetime.now() + timedelta(seconds=1), for instants before 23:59:59.
AddSecond(t) == [t EXCEPT !.secs = t.secs + 1]

\* labels[label]: 'auto<label>', or 'auto_<label>_' with --date-human-format.
LabelPrefix(label, fmt) ==
    IF fmt.human THEN Auto \o <<"_">> \o LabelChars(label) \o <<"_">>
    ELSE Auto \o LabelChars(label)

\* The suffix, by the if/elif chain over the three format flags.
Suffix(t, fmt) ==
    IF fmt.iso THEN
        <<"_">> \o Pad4(t.Y) \o <<"_">> \o Pad2(t.m) \o <<"_">> \o Pad2(t.d) \o <<"T">>
            \o Pad2(Hour(t)) \o <<"_">> \o Pad2(Minute(t)) \o <<"_">> \o Pad2(Second(t))
    ELSE IF fmt.human THEN
        Pad2(t.Y % 100) \o Pad2(t.m) \o Pad2(t.d) \o <<"_">>
            \o Pad2(Hour(t)) \o Pad2(Minute(t)) \o Pad2(Second(t))
    ELSE IF fmt.truenas THEN
        Pad4(t.Y) \o Pad2(t.m) \o Pad2(t.d) \o Pad2(Hour(t)) \o Pad2(Minute(t)) \o Pad2(Second(t))
    ELSE
        Pad2(t.Y % 100) \o Pad2(t.m) \o Pad2(t.d) \o Pad2(Hour(t)) \o Pad2(Minute(t)) \o Pad2(Second(t))

\* snapshot_name of a snapshot taken when the clock reads t.
SnapshotName(label, fmt, t) == LabelPrefix(label, fmt) \o Suffix(AddSecond(t), fmt)

(***************************************************************************)
(* Retention: remove_snapshot                                              *)
(***************************************************************************)

SuffixClass == {"_", "T", "0", "1", "2", "3", "4", "5", "6", "7", "8", "9"}

\* Whether auto(_?)<label>([_0-9T]+$) matches s from position i on.
MatchAt(s, i, label) ==
    LET lab == LabelChars(label)
        j   == IF i + 4 <= Len(s) /\ s[i + 4] = "_" THEN i + 5 ELSE i + 4
        k   == j + Len(lab)
    IN  /\ i + 3 <= Len(s)
        /\ SubSeq(s, i, i + 3) = Auto
        /\ k <= Len(s)
        /\ SubSeq(s, j, k - 1) = lab
        /\ \A n \in k..Len(s) : s[n] \in SuffixClass

\* re.search(...): the leftmost match; group(0) runs to the end of the token.
\* <<>> stands for None.
Search(s, label) ==
    IF \E i \in 1..Len(s) : MatchAt(s, i, label)
    THEN LET i == CHOOSE i \in 1..Len(s) :
                    /\ MatchAt(s, i, label)
                    /\ \A h \in 1..(i - 1) : ~MatchAt(s, h, label)
         IN  SubSeq(s, i, Len(s))
    ELSE <<>>

\* A line of listsnapshot output is [arrow, name, descr]; this is
\* snapshot.replace('`->', '').split()[0], the name column.
FirstToken(line) == line.name

RECURSIVE ListSnapshot(_, _)
\* The loop over the output lines: the matches, in output order.
ListSnapshot(lines, label) ==
    IF lines = <<>> THEN <<>>
    ELSE LET m == Search(FirstToken(Head(lines)), label)
         IN  (IF m # <<>> THEN <<m>> ELSE <<>>) \o ListSnapshot(Tail(lines), label)

\* key=lambda x: x.replace('_', '')
SortKey(x) == Remove(x, "_")

RECURSIVE InsertDesc(_, _)
\* x put after every element whose key is not smaller (the sort is stable).
InsertDesc(sorted, x) ==
    IF sorted = <<>> THEN <<x>>
    ELSE IF StrLess(SortKey(Head(sorted)), SortKey(x))
         THEN <<x>> \o sorted
         ELSE <<Head(sorted)>> \o InsertDesc(Tail(sorted), x)

RECURSIVE SortedDesc(_)
\* sorted(listsnapshot, reverse=True, key=...)
SortedDesc(list) ==
    IF list = <<>> THEN <<>>
    ELSE InsertDesc(SortedDesc(SubSeq(list, 1, Len(list) - 1)), list[Len(list)])

\* old_snapshots: the entries of rank > keep, newest first.
OldSnapshots(listsnapshot, keep) ==
    IF listsnapshot # <<>> /\ Len(listsnapshot) > keep
    THEN LET s == SortedDesc(listsnapshot)
         IN  SubSeq(s, (IF keep < 0 THEN 0 ELSE keep) + 1, Len(s))
    ELSE <<>>

(***************************************************************************)
(* Guests: get_vmids, get_vmids_by_tags, get_filtered_vmids                *)
(***************************************************************************)

\* NODE_NAME, the short host name of the executing node.
NODE_NAME == "pve1"

\* VM IDs are strings on the command line and in .vmlist and integers in
\* the pvesh output: int(vmid) and str(vm['vmid']).
VmidTable == <<[s |-> "100", n |-> 100], [s |-> "101", n |-> 101],
               [s |-> "102", n |-> 102], [s |-> "999", n |-> 999]>>
IntOf(s) == VmidTable[CHOOSE i \in 1..Len(VmidTable) : VmidTable[i].s = s].n
StrOf(n) == VmidTable[CHOOSE i \in 1..Len(VmidTable) : VmidTable[i].n = n].s

Range(seq) == {seq[i] : i \in 1..Len(seq)}

\* A dict is a sequence of [k, v] in insertion order.
Keys(dict) == {dict[i].k : i \in 1..Len(dict)}
Lookup(dict, key) == dict[CHOOSE i \in 1..Len(dict) : dict[i].k = key].v
\* dict[key] = val: a new key goes last, an old one keeps its place.
Put(dict, key, val) ==
    IF key \in Keys(dict)
    THEN [i \in 1..Len(dict) |-> IF dict[i].k = key THEN [k |-> key, v |-> val] ELSE dict[i]]
    ELSE Append(dict, [k |-> key, v |-> val])
\* dict.pop(key, None)
Pop(dict, key) == SelectSeq(dict, LAMBDA e : e.k # key)

\* round(used_fraction, 2) >= 0.99, with the fraction in thousandths
\* (no model value ends in 5, where the float's binary form would decide).
Round2(permille) == (permille + 5) \div 10
StorageFull(e, a, vmid) ==
    /\ a.check_free_space
    /\ \E i \in 1..Len(e.storages) :
          /\ Round2(e.storages[i].used) >= 99
          /\ IntOf(vmid) \in e.storages[i].vmids

Guest(e, vmid) == e.guests[CHOOSE i \in 1..Len(e.guests) : e.guests[i].vmid = vmid]

\* vm_is_stopped: a failed status command counts as not stopped.
vm_is_stopped(e, vmid) == Guest(e, vmid).status_ok /\ Guest(e, vmid).stopped

RECURSIVE VmidsLoopAnyId(_, _, _, _)
\* As VmidsLoop, without the test of the exclusion list.
VmidsLoopAnyId(e, a, i, result) ==
    IF i > Len(e.guests) THEN [fatal |-> "", dict |-> result]
    ELSE LET vm == e.guests[i]
             virtualization == IF vm.type = "lxc" THEN "pct" ELSE "qm"
         IN  IF ~(vm.node = NODE_NAME)
             THEN VmidsLoopAnyId(e, a, i + 1, result)
             ELSE IF vm.type \notin {"lxc", "qemu"}
             THEN [fatal |-> "Unknown virtualization type", dict |-> <<>>]
             ELSE IF ~vm.config_ok
             THEN [fatal |-> "config failed", dict |-> <<>>]
             ELSE IF vm.template
             THEN VmidsLoopAnyId(e, a, i + 1, result)
             ELSE IF a.running /\ vm.status_ok /\ vm.stopped
             THEN VmidsLoopAnyId(e, a, i + 1, result)
             ELSE IF StorageFull(e, a, vm.vmid)
             THEN VmidsLoopAnyId(e, a, i + 1, result)
             ELSE VmidsLoopAnyId(e, a, i + 1, Put(result, vm.vmid, virtualization))

RECURSIVE VmidsLoop(_, _, _, _)
\* The loop of get_vmids over json_data['ids'], from entry i on, with the
\* result so far; [fatal, dict].
VmidsLoop(e, a, i, result) ==
    IF i > Len(e.guests) THEN [fatal |-> "", dict |-> result]
    ELSE LET vm == e.guests[i]
             virtualization == IF vm.type = "lxc" THEN "pct" ELSE "qm"
         IN  IF ~(vm.node = NODE_NAME /\ vm.vmid \notin Range(a.exclude))
             THEN VmidsLoop(e, a, i + 1, result)
             ELSE IF vm.type \notin {"lxc", "qemu"}
             THEN [fatal |-> "Unknown virtualization type", dict |-> <<>>]
             ELSE IF ~vm.config_ok
             THEN [fatal |-> "config failed", dict |-> <<>>]
             ELSE IF vm.template
             THEN VmidsLoop(e, a, i + 1, result)
             ELSE IF a.running /\ vm_is_stopped(e, vm.vmid)
             THEN VmidsLoop(e, a, i + 1, result)
             ELSE IF StorageFull(e, a, vm.vmid)
             THEN VmidsLoop(e, a, i + 1, result)
             ELSE VmidsLoop(e, a, i + 1, Put(result, vm.vmid, virtualization))

get_vmids(e, a) ==
    IF ~e.vmlist_ok THEN [fatal |-> "cat .vmlist failed", dict |-> <<>>]
    ELSE IF a.check_free_space /\ ~e.storage_ok
    THEN [fatal |-> "pvesh storage failed", dict |-> <<>>]
    ELSE VmidsLoop(e, a, 1, <<>>)

\* vm.get('tags', '').split(';'): the tags field is the list of its
\* ';'-separated parts, and an absent or empty field splits into [''].
SplitTags(field) == IF field = <<>> THEN <<"">> ELSE field

AnyTagIn(tags, vm_tags) == \E t \in Range(tags) : t \in Range(vm_tags)

\* The ids, in output order, of the local guests with one of the tags.
TaggedLocal(e, tags) ==
    LET hit == SelectSeq(e.guests, LAMBDA vm :
                   /\ vm.node = NODE_NAME
                   /\ tags # <<>>
                   /\ AnyTagIn(tags, SplitTags(vm.tags)))
    IN  [i \in 1..Len(hit) |-> StrOf(IntOf(hit[i].vmid))]

get_vmids_by_tags(e, tags, exclude_tags) ==
    [include |-> TaggedLocal(e, tags), exclude |-> TaggedLocal(e, exclude_tags)]

RECURSIVE PickLoopSkipping(_, _, _, _)
\* As PickLoop, were an unknown ID passed over instead of raising.
PickLoopSkipping(ids, exclude, all_vmid, picked) ==
    IF ids = <<>> THEN [fatal |-> "", dict |-> picked]
    ELSE IF Head(ids) \notin Range(exclude) /\ Head(ids) \in Keys(all_vmid)
         THEN PickLoopSkipping(Tail(ids), exclude, all_vmid,
                               Put(picked, Head(ids), Lookup(all_vmid, Head(ids))))
         ELSE PickLoopSkipping(Tail(ids), exclude, all_vmid, picked)

RECURSIVE PickLoop(_, _, _, _)
\* for vmid in ids: picked_vmid[vmid] = all_vmid[vmid], or 'not found'.
PickLoop(ids, exclude, all_vmid, picked) ==
    IF ids = <<>> THEN [fatal |-> "", dict |-> picked]
    ELSE IF Head(ids) \notin Range(exclude) /\ Head(ids) \in Keys(all_vmid)
         THEN PickLoop(Tail(ids), exclude, all_vmid,
                       Put(picked, Head(ids), Lookup(all_vmid, Head(ids))))
         ELSE [fatal |-> "not found", dict |-> <<>>]

RECURSIVE PopAll(_, _)
PopAll(dict, ids) == IF ids = <<>> THEN dict ELSE PopAll(Pop(dict, Head(ids)), Tail(ids))

\* The explicit-ID part: "all", or every listed ID looked up.
PickById(a, all_vmid) ==
    IF a.vmid # <<>> /\ "all" \in Range(a.vmid)
    THEN [fatal |-> "", dict |-> all_vmid]
    ELSE PickLoop(a.vmid, a.exclude, all_vmid, <<>>)

\* The inclusion by tag, on top of the explicit part.
IncludeTagged(a, by_tags, all_vmid, picked) ==
    IF a.tags # <<>> THEN PickLoop(by_tags.include, <<>>, all_vmid, picked)
    ELSE [fatal |-> "", dict |-> picked]

\* The exclusion by tag, applied last.
ExcludeTagged(a, by_tags, picked) ==
    IF a.exclude_tags # <<>> THEN PopAll(picked, by_tags.exclude) ELSE picked

\* As FilterByTags, were the exclusion applied before the inclusion.
FilterByTagsExcludeFirst(e, a, all_vmid, picked) ==
    IF a.tags = <<>> /\ a.exclude_tags = <<>> THEN [fatal |-> "", dict |-> picked]
    ELSE IF ~e.version_ok THEN [fatal |-> "pveversion failed", dict |-> <<>>]
    ELSE IF ~(e.version >= 73) THEN [fatal |-> "does not support tags", dict |-> <<>>]
    ELSE IF ~e.resources_ok THEN [fatal |-> "pvesh resources failed", dict |-> <<>>]
    ELSE LET by_tags == get_vmids_by_tags(e, a.tags, a.exclude_tags)
         IN  IncludeTagged(a, by_tags, all_vmid, ExcludeTagged(a, by_tags, picked))

\* The tag part of get_filtered_vmids.
FilterByTags(e, a, all_vmid, picked) ==
    IF a.tags = <<>> /\ a.exclude_tags = <<>> THEN [fatal |-> "", dict |-> picked]
    ELSE IF ~e.version_ok THEN [fatal |-> "pveversion failed", dict |-> <<>>]
    ELSE IF ~(e.version >= 73) THEN [fatal |-> "does not support tags", dict |-> <<>>]
    ELSE IF ~e.resources_ok THEN [fatal |-> "pvesh resources failed", dict |-> <<>>]
    ELSE LET by_tags == get_vmids_by_tags(e, a.tags, a.exclude_tags)
             inc == IncludeTagged(a, by_tags, all_vmid, picked)
         IN  IF inc.fatal # "" THEN inc
             ELSE [fatal |-> "", dict |-> ExcludeTagged(a, by_tags, inc.dict)]

get_filtered_vmids(e, a) ==
    LET all == get_vmids(e, a)
        byid == PickById(a, all.dict)
    IN  IF all.fatal # "" THEN all
        ELSE IF byid.fatal # "" THEN byid
        ELSE FilterByTags(e, a, all.dict, byid.dict)


(***************************************************************************)
(* The inputs the model draws from                                         *)
(***************************************************************************)

\* The clock's readings, in chronological order.
Instants ==
    <<[Y |-> 2023, m |-> 12, d |-> 31, secs |-> 29109],
      [Y |-> 2024, m |-> 1,  d |-> 9,  secs |-> 61259],
      [Y |-> 2024, m |-> 10, d |-> 1,  secs |-> 0],
      [Y |-> 2024, m |-> 10, d |-> 1,  secs |-> 59],
      [Y |-> 2024, m |-> 11, d |-> 2,  secs |-> 59580],
      [Y |-> 2025, m |-> 2,  d |-> 3,  secs |-> 3600]>>

\* How many of the instants lie before the run (earlier runs' snapshots).
PastInstants == 2

\* The last instant the clock reaches during the run.
MaxTime == 4

\* The largest --keep.
MaxKeep == 2

\* The most snapshots a guest has when the retention is checked alone.
MaxSnaps == 3

Compact == [iso |-> FALSE, human |-> FALSE, truenas |-> FALSE]
Iso     == [iso |-> TRUE,  human |-> FALSE, truenas |-> FALSE]
Human   == [iso |-> FALSE, human |-> TRUE,  truenas |-> FALSE]
TrueNAS == [iso |-> FALSE, human |-> FALSE, truenas |-> TRUE]

(***************************************************************************)
(* The state of one invocation, of the node it runs on, and of one other   *)
(* invocation started on the same node.                                    *)
(***************************************************************************)

VARIABLES
    argp,           \* the parsed command line (and the globals set from it)
    env,            \* the node: guest registry, configs, tags, storages
    snapshots,      \* per guest, the names listsnapshot prints, in order
    now,            \* the clock, an index into Instants
    pc,             \* where the invocation is
    lockfile,       \* who wrote the PID file last, "none" when it is absent
    other,          \* where the other invocation is
    all_vmid,       \* get_filtered_vmids' local: what get_vmids returned
    picked_vmid,    \* main's local: the picked guests, a dict
    idx,            \* the position of main's loop in picked_vmid
    half,           \* in autosnap mode, which of the two calls is next
    created,        \* per guest, the snapshot_name create_snapshot made
    listing,        \* per guest, the names remove_snapshot read
    old_snapshots,  \* per guest, remove_snapshot's old_snapshots
    executed,       \* the mutating commands run, in order, with their status
    printed,        \* what was printed
    fatal,          \* the message of the SystemExit raised, "" if none
    exitcode        \* the exit status, -1 while running

vars == <<argp, env, snapshots, now, pc, lockfile, other, all_vmid, picked_vmid, idx,
          half, created, listing, old_snapshots, executed, printed, fatal, exitcode>>

VmIds == {"100", "101", "102"}

\* The line "`-> current   You are here!" that ends the listsnapshot output.
Current == <<"c", "u", "r", "r", "e", "n", "t">>

Names(lines) == {lines[i].name : i \in 1..Len(lines)}

(***************************************************************************)
(* running: the PID file                                                   *)
(***************************************************************************)

\* os.path.isfile(location_pid): refused with status 1, or go on.
CheckLock ==
    /\ pc = "start"
    /\ IF lockfile # "none"
       THEN /\ pc' = "exited"
            /\ exitcode' = 1
            /\ printed' = Append(printed, [kind |-> "already running", vmid |-> "", arg |-> <<>>])
       ELSE /\ pc' = "checked"
            /\ UNCHANGED <<exitcode, printed>>
    /\ UNCHANGED <<argp, env, snapshots, now, lockfile, other, all_vmid, picked_vmid, idx,
                   half, created, listing, old_snapshots, executed, fatal>>

\* open(location_pid, 'w'); f.write(pid)
WriteLock ==
    /\ pc = "checked"
    /\ lockfile' = "self"
    /\ pc' = "main"
    /\ UNCHANGED <<argp, env, snapshots, now, other, all_vmid, picked_vmid, idx, half,
                   created, listing, old_snapshots, executed, printed, fatal, exitcode>>

\* As LockAfterMain, were the unlink to follow the call instead of standing in
\* a finally clause.
LockAfterReturnOnly(file, raised) == IF raised THEN file ELSE "none"

\* try: ... finally: os.unlink(location_pid): the PID file after the guarded
\* call, however it ended (raised: a SystemExit left it).
LockAfterMain(file, raised) == "none"

\* The finally clause. A file already gone makes os.unlink raise
\* FileNotFoundError: a traceback, and the process ends with status 1.
Release ==
    /\ pc = "finally"
    /\ pc' = "exited"
    /\ lockfile' = LockAfterMain(lockfile, fatal # "")
    /\ exitcode' = IF lockfile = "none" THEN 1 ELSE exitcode
    /\ printed' = IF lockfile = "none"
                  THEN Append(printed, [kind |-> "traceback", vmid |-> "", arg |-> <<>>])
                  ELSE printed
    /\ UNCHANGED <<argp, env, snapshots, now, other, all_vmid, picked_vmid, idx, half,
                   created, listing, old_snapshots, executed, fatal>>

\* The other invocation: the same check, write, main body and unlink.
OtherCheck ==
    /\ other = "start"
    /\ other' = IF lockfile # "none" THEN "exited" ELSE "checked"
    /\ UNCHANGED <<argp, env, snapshots, now, pc, lockfile, all_vmid, picked_vmid, idx,
                   half, created, listing, old_snapshots, executed, printed, fatal, exitcode>>

OtherWrite ==
    /\ other = "checked"
    /\ other' = "main"
    /\ lockfile' = "other"
    /\ UNCHANGED <<argp, env, snapshots, now, pc, all_vmid, picked_vmid, idx, half,
                   created, listing, old_snapshots, executed, printed, fatal, exitcode>>

OtherRelease ==
    /\ other = "main"
    /\ other' = "exited"
    /\ lockfile' = "none"
    /\ UNCHANGED <<argp, env, snapshots, now, pc, all_vmid, picked_vmid, idx, half,
                   created, listing, old_snapshots, executed, printed, fatal, exitcode>>


(***************************************************************************)
(* create_snapshot, remove_snapshot, zfs_send                              *)
(***************************************************************************)

Say(kind, vmid, arg) == [kind |-> kind, vmid |-> vmid, arg |-> arg]
Ran(cmd, vmid, arg, ok) == [cmd |-> cmd, vmid |-> vmid, arg |-> arg, ok |-> ok]

\* create_snapshot for one guest, the clock reading t, the external command
\* succeeding if `ok` and the name is free: [name, made, lines, exec, out].
create_snapshot(a, vmid, t, lines, ok) ==
    LET snapshot_name == SnapshotName(a.label, a.fmt, t)
        status == ok /\ snapshot_name \notin Names(lines)
    IN  IF a.dryrun
        THEN [name |-> snapshot_name, made |-> FALSE, lines |-> lines, exec |-> <<>>,
              out |-> <<Say("cmdline", vmid, snapshot_name)>>]
        ELSE [name |-> snapshot_name, made |-> status,
              lines |-> IF status THEN Append(lines, [name |-> snapshot_name]) ELSE lines,
              exec |-> <<Ran("snapshot", vmid, snapshot_name, status)>>,
              out |-> <<Say(IF status THEN "created" ELSE "error", vmid, snapshot_name)>>]

\* As DeleteOne, without the test of DRY_RUN.
DeleteOneLive(a, vmid, old_snapshot, ok, st) ==
    LET status == ok /\ old_snapshot \in Names(st.lines)
    IN  [lines |-> IF status
                   THEN SelectSeq(st.lines, LAMBDA l : l.name # old_snapshot)
                   ELSE st.lines,
         exec |-> Append(st.exec, Ran("delsnapshot", vmid, old_snapshot, status)),
         out |-> Append(st.out, Say(IF status THEN "removed" ELSE "error",
                                    vmid, old_snapshot))]

\* The body of the loop over old_snapshots for one old snapshot, from the
\* state st = [lines, exec, out] of the loop so far.
DeleteOne(a, vmid, old_snapshot, ok, st) ==
    LET status == ok /\ old_snapshot \in Names(st.lines)
    IN  IF a.dryrun
        THEN [st EXCEPT !.out = Append(@, Say("cmdline", vmid, old_snapshot))]
        ELSE [lines |-> IF status
                        THEN SelectSeq(st.lines, LAMBDA l : l.name # old_snapshot)
                        ELSE st.lines,
              exec |-> Append(st.exec, Ran("delsnapshot", vmid, old_snapshot, status)),
              out |-> Append(st.out, Say(IF status THEN "removed" ELSE "error",
                                         vmid, old_snapshot))]

RECURSIVE DeleteLoopStopping(_, _, _, _, _, _)
\* As DeleteLoop, were a failed delsnapshot to end the loop.
DeleteLoopStopping(a, vmid, old, oks, i, st) ==
    IF i > Len(old) THEN st
    ELSE LET nxt == DeleteOne(a, vmid, old[i], oks[i], st)
         IN  IF ~a.dryrun /\ ~nxt.exec[Len(nxt.exec)].ok THEN nxt
             ELSE DeleteLoopStopping(a, vmid, old, oks, i + 1, nxt)

RECURSIVE DeleteLoop(_, _, _, _, _, _)
\* for old_snapshot in old_snapshots: ..., from the i-th on.
DeleteLoop(a, vmid, old, oks, i, st) ==
    IF i > Len(old) THEN st
    ELSE DeleteLoop(a, vmid, old, oks, i + 1, DeleteOne(a, vmid, old[i], oks[i], st))

\* What listsnapshot prints for a guest: its snapshots, then "current".
ListOutput(lines) == Append(lines, [name |-> Current])

\* remove_snapshot for one guest: [fatal, list, old, lines, exec, out]. lsok
\* is the status of listsnapshot, oks[i] of the i-th delsnapshot.
remove_snapshot(a, vmid, lines, lsok, oks) ==
    IF ~lsok
    THEN [fatal |-> "listsnapshot failed", list |-> <<>>, old |-> <<>>, lines |-> lines,
          exec |-> <<>>, out |-> <<>>]
    ELSE LET listsnapshot == ListSnapshot(ListOutput(lines), a.label)
             old == OldSnapshots(listsnapshot, a.keep)
             st == DeleteLoop(a, vmid, old, oks, 1,
                              [lines |-> lines, exec |-> <<>>, out |-> <<>>])
         IN  [fatal |-> "", list |-> listsnapshot, old |-> old, lines |-> st.lines,
              exec |-> st.exec, out |-> st.out]

\* The volumes zfs_send replicates: rootfs; mpN with backup=1; ide/sata/
\* scsi/virtio disks without backup=0 that are not 'none'; efidisk, tpmstate.
Eligible(v) ==
    \/ v.kind = "rootfs"
    \/ v.kind = "mp" /\ v.backup = "1"
    \/ v.kind = "disk" /\ v.backup # "0" /\ v.vol # "none"
    \/ v.kind = "efidisk"

\* The body of zfs_send's loop for one eligible volume; st = [fatal, exec, out].
SendOne(a, vmid, v, pathok, ok, st) ==
    IF ~pathok THEN [st EXCEPT !.fatal = "pvesm path failed"]
    ELSE IF a.dryrun THEN [st EXCEPT !.out = Append(@, Say("cmdline", vmid, v.vol))]
    ELSE [st EXCEPT !.exec = Append(@, Ran("syncoid", vmid, v.vol, ok)),
                    !.out = Append(@, Say(IF ok THEN "syncoid" ELSE "error", vmid, v.vol))]

RECURSIVE SendLoop(_, _, _, _, _, _, _)
\* for k, v in cfg.items(): ..., from the i-th eligible volume on; the
\* pvesm path of volume number badpath fails (0: none does).
SendLoop(a, vmid, vols, badpath, oks, i, st) ==
    IF i > Len(vols) \/ st.fatal # "" THEN st
    ELSE SendLoop(a, vmid, vols, badpath, oks, i + 1,
                  SendOne(a, vmid, vols[i], i # badpath, oks[i], st))

\* zfs_send for one guest: [fatal, exec, out]. cfgok is the status of the
\* config command.
zfs_send(a, vmid, volumes, cfgok, badpath, oks) ==
    IF ~cfgok THEN [fatal |-> "config failed", exec |-> <<>>, out |-> <<>>]
    ELSE SendLoop(a, vmid, SelectSeq(volumes, Eligible), badpath, oks, 1,
                  [fatal |-> "", exec |-> <<>>, out |-> <<>>])


(***************************************************************************)
(* main                                                                    *)
(***************************************************************************)

\* if argp.snap ... elif argp.clean ... elif argp.autosnap ... elif
\* argp.zfs_send_to ... else print_help
Mode(a) ==
    IF a.snap THEN "snap"
    ELSE IF a.clean THEN "clean"
    ELSE IF a.autosnap THEN "autosnap"
    ELSE IF a.zfs_send_to # "" THEN "zfs"
    ELSE "help"

\* parser.error: none of --vmid, --tags, --exclude-tags was given.
UsageError(a) == a.vmid = <<>> /\ a.tags = <<>> /\ a.exclude_tags = <<>>

\* main up to the dispatch: the usage check and get_filtered_vmids.
Select ==
    /\ pc = "main"
    /\ IF UsageError(argp)
       THEN /\ fatal' = "usage"
            /\ exitcode' = 2
            /\ pc' = "finally"
            /\ UNCHANGED <<all_vmid, picked_vmid>>
       ELSE LET r == get_filtered_vmids(env, argp)
            IN  /\ all_vmid' = get_vmids(env, argp)
                /\ IF r.fatal # ""
                   THEN /\ fatal' = r.fatal
                        /\ exitcode' = 1
                        /\ pc' = "finally"
                        /\ UNCHANGED picked_vmid
                   ELSE /\ picked_vmid' = r.dict
                        /\ pc' = "act"
                        /\ UNCHANGED <<fatal, exitcode>>
    /\ UNCHANGED <<argp, env, snapshots, now, lockfile, other, idx, half, created,
                   listing, old_snapshots, executed, printed>>

\* One call of create_snapshot from the loop of main.
CreateStep ==
    /\ pc = "act"
    /\ idx <= Len(picked_vmid)
    /\ Mode(argp) = "snap" \/ (Mode(argp) = "autosnap" /\ half = "create")
    /\ \E ok \in BOOLEAN :
          LET vmid == picked_vmid[idx].k
              r == create_snapshot(argp, vmid, Instants[now], snapshots[vmid], ok)
          IN  /\ snapshots' = [snapshots EXCEPT ![vmid] = r.lines]
              /\ created' = [created EXCEPT ![vmid] = IF r.made THEN r.name ELSE @]
              /\ executed' = executed \o r.exec
              /\ printed' = printed \o r.out
    /\ IF Mode(argp) = "snap"
       THEN idx' = idx + 1 /\ UNCHANGED half
       ELSE half' = "remove" /\ UNCHANGED idx
    /\ UNCHANGED <<argp, env, now, pc, lockfile, other, all_vmid, picked_vmid, listing,
                   old_snapshots, fatal, exitcode>>

\* One call of remove_snapshot from the loop of main.
RemoveStep ==
    /\ pc = "act"
    /\ idx <= Len(picked_vmid)
    /\ Mode(argp) = "clean" \/ (Mode(argp) = "autosnap" /\ half = "remove")
    /\ LET vmid == picked_vmid[idx].k
           n == Len(OldSnapshots(ListSnapshot(ListOutput(snapshots[vmid]), argp.label), argp.keep))
       IN  \E lsok \in BOOLEAN : \E oks \in [1..n -> BOOLEAN] :
              LET r == remove_snapshot(argp, vmid, snapshots[vmid], lsok, oks)
              IN  /\ snapshots' = [snapshots EXCEPT ![vmid] = r.lines]
                  /\ listing' = [listing EXCEPT ![vmid] = IF lsok THEN snapshots[vmid] ELSE @]
                  /\ old_snapshots' = [old_snapshots EXCEPT ![vmid] = r.old]
                  /\ executed' = executed \o r.exec
                  /\ printed' = printed \o r.out
                  /\ IF r.fatal # ""
                     THEN /\ fatal' = r.fatal
                          /\ exitcode' = 1
                          /\ pc' = "finally"
                          /\ UNCHANGED <<idx, half>>
                     ELSE /\ idx' = idx + 1
                          /\ half' = "create"
                          /\ UNCHANGED <<fatal, exitcode, pc>>
    /\ UNCHANGED <<argp, env, now, lockfile, other, all_vmid, picked_vmid, created>>

\* One call of zfs_send from the loop of main.
ZfsStep ==
    /\ pc = "act"
    /\ idx <= Len(picked_vmid)
    /\ Mode(argp) = "zfs"
    /\ LET vmid == picked_vmid[idx].k
           volumes == Guest(env, vmid).volumes
           n == Len(SelectSeq(volumes, Eligible))
       IN  \E cfgok \in BOOLEAN : \E badpath \in 0..n : \E oks \in [1..n -> BOOLEAN] :
              LET r == zfs_send(argp, vmid, volumes, cfgok, badpath, oks)
              IN  /\ executed' = executed \o r.exec
                  /\ printed' = printed \o r.out
                  /\ IF r.fatal # ""
                     THEN /\ fatal' = r.fatal
                          /\ exitcode' = 1
                          /\ pc' = "finally"
                          /\ UNCHANGED idx
                     ELSE /\ idx' = idx + 1
                          /\ UNCHANGED <<fatal, exitcode, pc>>
    /\ UNCHANGED <<argp, env, snapshots, now, lockfile, other, all_vmid, picked_vmid, half,
                   created, listing, old_snapshots>>

\* No primary action was given: parser.print_help().
PrintHelp ==
    /\ pc = "act"
    /\ Mode(argp) = "help"
    /\ printed' = Append(printed, Say("help", "", <<>>))
    /\ pc' = "finally"
    /\ exitcode' = 0
    /\ UNCHANGED <<argp, env, snapshots, now, lockfile, other, all_vmid, picked_vmid, idx,
                   half, created, listing, old_snapshots, executed, fatal>>

\* The loop of main is over its last guest: main returns.
Return ==
    /\ pc = "act"
    /\ Mode(argp) # "help"
    /\ idx > Len(picked_vmid)
    /\ pc' = "finally"
    /\ exitcode' = 0
    /\ UNCHANGED <<argp, env, snapshots, now, lockfile, other, all_vmid, picked_vmid, idx,
                   half, created, listing, old_snapshots, executed, printed, fatal>>

\* Time passes while the guests are worked on (create_snapshot alone reads
\* the clock, so it is advanced in the runs that call it).
Tick ==
    /\ pc = "act"
    /\ Mode(argp) \in {"snap", "autosnap"}
    /\ now < MaxTime
    /\ now' = now + 1
    /\ UNCHANGED <<argp, env, snapshots, pc, lockfile, other, all_vmid, picked_vmid, idx,
                   half, created, listing, old_snapshots, executed, printed, fatal, exitcode>>


(***************************************************************************)
(* Initial states                                                          *)
(***************************************************************************)

ArgsOf(vmid, tags, exclude, exclude_tags, mode, keep, dryrun, fmt, running, cfs) ==
    [vmid |-> vmid, tags |-> tags, exclude |-> exclude, exclude_tags |-> exclude_tags,
     snap |-> mode = "snap", clean |-> mode = "clean", autosnap |-> mode = "autosnap",
     zfs_send_to |-> IF mode = "zfs" THEN "backup:tank" ELSE "",
     keep |-> keep, label |-> "daily", dryrun |-> dryrun, fmt |-> fmt,
     running |-> running, check_free_space |-> cfs]

GuestOf(vmid, node, type, template, stopped, config_ok, tags, volumes) ==
    [vmid |-> vmid, node |-> node, type |-> type, template |-> template,
     stopped |-> stopped, status_ok |-> TRUE, config_ok |-> config_ok, tags |-> tags,
     volumes |-> volumes]

Vol(kind, backup, vol) == [kind |-> kind, backup |-> backup, vol |-> vol]

Volumes100 == <<Vol("rootfs", "", "zfs:subvol-100-disk-0"), Vol("mp", "1", "zfs:subvol-100-disk-1"),
                Vol("mp", "", "zfs:subvol-100-disk-2"), Vol("other", "", "")>>
Volumes101 == <<Vol("disk", "", "zfs:vm-101-disk-0"), Vol("disk", "0", "zfs:vm-101-disk-1"),
                Vol("disk", "", "none"), Vol("efidisk", "", "zfs:vm-101-disk-2")>>

EnvOf(guests, used, fail) ==
    [guests |-> guests,
     storages |-> <<[used |-> used, vmids |-> {100}], [used |-> 984, vmids |-> {101, 102}]>>,
     vmlist_ok |-> fail # "vmlist", storage_ok |-> fail # "storage",
     version_ok |-> fail # "pveversion", version |-> IF fail = "old" THEN 72 ELSE 81,
     resources_ok |-> fail # "resources"]

Backup == <<"b", "a", "c", "k", "u", "p">>

\* Names earlier runs left: [name, t, fmt, label], t the index of the instant.
Made(label, fmt, t) ==
    [name |-> SnapshotName(label, fmt, Instants[t]), t |-> t, fmt |-> fmt, label |-> label]

\* A guest's snapshots in the runs of the whole program.
Histories ==
    {<<>>,
     <<[name |-> Made("daily", Compact, 1).name], [name |-> Made("daily", Compact, 2).name]>>,
     <<[name |-> Backup], [name |-> Made("daily", Iso, 1).name],
       [name |-> Made("hourly", Compact, 2).name]>>}

NoNames == [v \in VmIds |-> <<>>]

RunGuests ==
    <<GuestOf("100", NODE_NAME, "lxc", FALSE, FALSE, TRUE, <<"prod">>, Volumes100),
      GuestOf("101", NODE_NAME, "qemu", FALSE, FALSE, TRUE, <<"prod", "nosnap">>, Volumes101),
      GuestOf("102", "pve2", "qemu", FALSE, FALSE, TRUE, <<"prod">>, <<>>)>>

\* The runs of the whole program: every mode, dry or not, on all guests ...
ModeRuns ==
    {[a |-> ArgsOf(<<"all">>, <<>>, <<>>, <<>>, m, k, d, f, FALSE, FALSE), h |-> h,
      fail |-> "none"] :
        m \in {"snap", "clean", "autosnap", "zfs", "help"},
        k \in 0..MaxKeep, d \in BOOLEAN, f \in {Compact, Iso}, h \in Histories}

\* ... every kind of --vmid list ...
VmidRuns ==
    {[a |-> ArgsOf(v, <<>>, <<>>, <<>>, m, 1, d, Compact, FALSE, FALSE), h |-> h,
      fail |-> x] :
        v \in {<<>>, <<"101", "100">>, <<"100", "999">>, <<"all", "999">>},
        m \in {"snap", "clean", "zfs"}, d \in BOOLEAN, h \in Histories,
        x \in {"none", "vmlist"}}

\* ... and the tags.
TagRuns ==
    {[a |-> ArgsOf(v, <<"prod">>, <<>>, <<"nosnap">>, "autosnap", 1, d, Compact, FALSE, FALSE),
      h |-> h, fail |-> x] :
        v \in {<<>>, <<"all">>}, d \in BOOLEAN, h \in Histories, x \in {"none", "old"}}

\* Only what a mode reads is varied with it.
Runs ==
    {r \in ModeRuns \cup VmidRuns \cup TagRuns :
        /\ Mode(r.a) \in {"zfs", "help", "snap"} => r.a.keep = 1 /\ r.h = <<>>
        /\ Mode(r.a) \in {"zfs", "help", "clean"} => r.a.fmt = Compact
        /\ r.fail # "none" => r.h = <<>> /\ ~r.a.dryrun}

\* The registries, versions and failures get_filtered_vmids is checked on.
SelectEnvs ==
    {EnvOf(<<GuestOf("100", n1, "lxc", t1, FALSE, TRUE, g1, Volumes100),
             GuestOf("101", NODE_NAME, "qemu", FALSE, s2, fail # "config", g2, Volumes101),
             GuestOf("102", n3, y3, FALSE, FALSE, TRUE, <<"nosnap">>, <<>>)>>, used, fail) :
        n1 \in {NODE_NAME, "pve2"}, t1 \in BOOLEAN, g1 \in {<<>>, <<"prod", "nosnap">>},
        s2 \in BOOLEAN, g2 \in {<<>>, <<"prod">>, <<"nosnap">>},
        n3 \in {NODE_NAME, "pve2"}, y3 \in {"qemu", "openvz"},
        used \in {984, 986}, fail \in {"none", "old", "config", "vmlist", "storage"}}

\* ... and the command lines.
SelectArgs ==
    {ArgsOf(v, tg[1], x, tg[2], "snap", 1, FALSE, Compact, rc[1], rc[2]) :
        v \in {<<>>, <<"all">>, <<"100", "101">>, <<"102", "999">>},
        tg \in {<< <<>>, <<>> >>, << <<"prod">>, <<>> >>, << <<>>, <<"nosnap">> >>,
                << <<"prod">>, <<"nosnap">> >>},
        x \in {<<>>, <<"101">>},
        rc \in {<<FALSE, FALSE>>, <<TRUE, FALSE>>, <<FALSE, TRUE>>}}

\* main with the PID file written, about to select the guests.
InitSelect ==
    /\ argp \in SelectArgs
    /\ env \in {e \in SelectEnvs : ~argp.check_free_space => e.storages[1].used = 984}
    /\ snapshots = NoNames
    /\ now = PastInstants + 1
    /\ pc = "main"
    /\ lockfile = "self"
    /\ other = "exited"
    /\ all_vmid = [fatal |-> "", dict |-> <<>>]
    /\ picked_vmid = <<>>
    /\ idx = 1
    /\ half = "create"
    /\ created = NoNames
    /\ listing = NoNames
    /\ old_snapshots = NoNames
    /\ executed = <<>>
    /\ printed = <<>>
    /\ fatal = ""
    /\ exitcode = -1

\* get_filtered_vmids on its own.
SpecSelect == InitSelect /\ [][Select]_vars

\* The names a guest's snapshots are drawn from when the retention is
\* checked alone: this tool's, in several formats and of two labels, and
\* snapshots made by hand.
Universe ==
    <<Made("daily", Compact, 1).name, Made("daily", Compact, 2).name,
      Made("daily", Iso, 1).name, Made("daily", Iso, 2).name,
      Made("daily", Human, 2).name, Made("daily", TrueNAS, 1).name,
      Made("hourly", Compact, 2).name, Backup, <<"x">> \o Made("daily", Compact, 1).name>>

RECURSIVE Lists(_)
\* The lists of at most n different lines.
Lists(n) ==
    IF n = 0 THEN {<<>>}
    ELSE LET shorter == Lists(n - 1)
         IN  shorter \cup
             {Append(l, [name |-> Universe[i]]) :
                l \in {k \in shorter : Len(k) = n - 1}, i \in 1..Len(Universe)}

NoRepeat(l) == \A i, j \in 1..Len(l) : i # j => l[i] # l[j]

\* main in --clean mode, about to call remove_snapshot for its one guest.
InitRetention ==
    /\ \E k \in 0..MaxKeep, d \in BOOLEAN :
          argp = ArgsOf(<<"100">>, <<>>, <<>>, <<>>, "clean", k, d, Compact, FALSE, FALSE)
    /\ env = EnvOf(RunGuests, 500, "none")
    /\ \E l \in {l \in Lists(MaxSnaps) : NoRepeat(l)} :
          snapshots = [v \in VmIds |-> IF v = "100" THEN l ELSE <<>>]
    /\ now = PastInstants + 1
    /\ pc = "act"
    /\ lockfile = "self"
    /\ other = "exited"
    /\ all_vmid = get_vmids(env, argp)
    /\ picked_vmid = <<[k |-> "100", v |-> "pct"]>>
    /\ idx = 1
    /\ half = "create"
    /\ created = NoNames
    /\ listing = NoNames
    /\ old_snapshots = NoNames
    /\ executed = <<>>
    /\ printed = <<>>
    /\ fatal = ""
    /\ exitcode = -1

\* remove_snapshot on its own.
SpecRetention == InitRetention /\ [][RemoveStep]_vars

Init ==
    /\ \E r \in Runs :
          /\ argp = r.a
          /\ snapshots = [v \in VmIds |-> IF v = "100" THEN r.h ELSE
                                          IF v = "101" /\ r.h # <<>> THEN <<r.h[1]>> ELSE <<>>]
          /\ env = EnvOf(RunGuests, 500, r.fail)
    /\ now = PastInstants + 1
    /\ pc = "start"
    /\ lockfile = "none"
    /\ other = "start"
    /\ all_vmid = [fatal |-> "", dict |-> <<>>]
    /\ picked_vmid = <<>>
    /\ idx = 1
    /\ half = "create"
    /\ created = NoNames
    /\ listing = NoNames
    /\ old_snapshots = NoNames
    /\ executed = <<>>
    /\ printed = <<>>
    /\ fatal = ""
    /\ exitcode = -1

Next ==
    \/ CheckLock
    \/ WriteLock
    \/ Select
    \/ CreateStep
    \/ RemoveStep
    \/ ZfsStep
    \/ PrintHelp
    \/ Return
    \/ Tick
    \/ Release
    \/ OtherCheck
    \/ OtherWrite
    \/ OtherRelease

Spec == Init /\ [][Next]_vars

(***************************************************************************)
(* Properties of the whole run                                             *)
(***************************************************************************)

Said(kind) == \E i \in 1..Len(printed) : printed[i].kind = kind

\* The arguments of the commands `cmd` run for a guest, in order.
ExecOf(cmd, vmid) ==
    LET hit == SelectSeq(executed, LAMBDA x : x.cmd = cmd /\ x.vmid = vmid)
    IN  [i \in 1..Len(hit) |-> hit[i].arg]

InMainBody == pc \in {"main", "act"}

\* C2: of the invocations started on a node at most one at a time is in the
\* guarded main body, and one that finds the PID file exits with status 1
\* having run no command for any guest.
C2_OneInvocationAtATime ==
    /\ ~(InMainBody /\ other = "main")
    /\ Said("already running") => pc = "exited" /\ exitcode = 1 /\ executed = <<>>

\* C8: an invocation that wrote the PID file has removed it when it ends,
\* on normal completion, usage error and fatal error alike: the file an
\* ended invocation wrote is never left behind.
C8_LockRemoved ==
    /\ pc = "exited" => lockfile # "self"
    /\ other = "exited" => lockfile # "other"

C8_Witness ==
    /\ pc = "exited"
    /\ ~Said("already running")
    /\ fatal \notin {"", "usage"}
    /\ exitcode = 1
    /\ lockfile = "none"
    /\ other = "start"

\* An ID of --vmid that get_vmids did not return.
UnknownId == \E id \in Range(argp.vmid) : id # "all" /\ id \notin Keys(get_vmids(env, argp).dict)

NothingAttempted == executed = <<>> /\ ~Said("cmdline")

\* C3 as stated: with an ID in --vmid that is not an enumerated guest the
\* run ends fatally with a nonzero status and attempts no command.
C3_UnknownIdIsFatal ==
    UnknownId => NothingAttempted /\ (pc = "exited" => exitcode # 0)

\* C3 as amended: the same, for a --vmid list that does not hold "all".
C3_UnknownIdIsFatalWithoutAll ==
    (UnknownId /\ "all" \notin Range(argp.vmid)) =>
        /\ NothingAttempted
        /\ pc = "exited" => exitcode = 1
        /\ pc \in {"finally", "exited"} /\ ~Said("already running") => fatal # ""

C3_Witness ==
    /\ UnknownId
    /\ "all" \notin Range(argp.vmid)
    /\ pc = "exited"
    /\ fatal = "not found"
    /\ Mode(argp) = "snap"
    /\ ~argp.dryrun

\* C6: in dry-run mode no snapshot, delsnapshot or syncoid command is ever
\* run, whatever the action and the picked guests; a command line is printed
\* for every old snapshot, and a run that makes snapshots returns with one
\* printed for every picked guest.
C6_DryRunRunsNothing ==
    argp.dryrun =>
        /\ executed = <<>>
        /\ \A v \in VmIds : \A n \in Range(old_snapshots[v]) :
              \E i \in 1..Len(printed) : printed[i] = Say("cmdline", v, n)
        /\ (pc = "finally" /\ fatal = "" /\ Mode(argp) \in {"snap", "autosnap"}) =>
              \A v \in Keys(picked_vmid) :
                  \E i \in 1..Len(printed) : printed[i].kind = "cmdline" /\ printed[i].vmid = v

C6_Witness ==
    /\ argp.dryrun
    /\ pc = "exited"
    /\ exitcode = 0
    /\ Mode(argp) = "autosnap"
    /\ \E v \in VmIds : Len(old_snapshots[v]) >= 2
    /\ Said("cmdline")

Failed == \E i \in 1..Len(executed) : ~executed[i].ok

Reported ==
    \A i \in 1..Len(executed) :
        ~executed[i].ok =>
            \E j \in 1..Len(printed) : printed[j] = Say("error", executed[i].vmid, executed[i].arg)

VolOf(v) == v.vol

\* The action of the run was attempted for the guest, for each of its old
\* snapshots and each of its volumes.
Handled(vmid) ==
    LET vols == SelectSeq(Guest(env, vmid).volumes, Eligible)
    IN  /\ Mode(argp) \in {"snap", "autosnap"} => Len(ExecOf("snapshot", vmid)) = 1
        /\ Mode(argp) \in {"clean", "autosnap"} =>
              ExecOf("delsnapshot", vmid) = old_snapshots[vmid]
        /\ Mode(argp) = "zfs" =>
              ExecOf("syncoid", vmid) = [i \in 1..Len(vols) |-> VolOf(vols[i])]

C10_NewSnapshotIsKept ==
    (Mode(argp) = "autosnap" /\ argp.keep >= 1) =>
        \A v \in VmIds : created[v] # <<>> => created[v] \notin Range(old_snapshots[v])

(***************************************************************************)
(* Properties of the selection                                             *)
(***************************************************************************)

Selected == pc \in {"act", "finally"} /\ fatal # "usage"

Local(g) == g.node = NODE_NAME
Excluded(g) == g.vmid \in Range(argp.exclude)
Known(g) == g.type \in {"lxc", "qemu"}
Kind(g) == IF g.type = "lxc" THEN "pct" ELSE "qm"
OnFullStorage(g) ==
    \E i \in 1..Len(env.storages) :
        Round2(env.storages[i].used) >= 99 /\ IntOf(g.vmid) \in env.storages[i].vmids
\* The guests get_vmids passes over with a notice.
Skipped(g) ==
    \/ g.template
    \/ argp.running /\ g.status_ok /\ g.stopped
    \/ argp.check_free_space /\ OnFullStorage(g)

Maps(dict, g) == g.vmid \in Keys(dict) /\ Lookup(dict, g.vmid) = Kind(g)

\* C5 as stated: the mapping get_vmids returns leaves out the guests of
\* other nodes and the excluded ones, and holds every other guest of a
\* known type with its kind.
C5_EnumerationIsLocalAndNotExcluded ==
    (Selected /\ all_vmid.fatal = "") =>
        \A g \in Range(env.guests) :
            /\ (~Local(g) \/ Excluded(g)) => g.vmid \notin Keys(all_vmid.dict)
            /\ (Local(g) /\ ~Excluded(g) /\ Known(g)) => Maps(all_vmid.dict, g)

\* C5 as amended: ... and holds every other guest of a known type that is
\* no template, is not stopped under --running and is not on a storage at
\* least 99% used under --check-free-space, with its kind, and those only.
C5_EnumerationIsLocalNotExcludedNotSkipped ==
    (Selected /\ all_vmid.fatal = "") =>
        \A g \in Range(env.guests) :
            /\ (~Local(g) \/ Excluded(g) \/ Skipped(g)) => g.vmid \notin Keys(all_vmid.dict)
            /\ (Local(g) /\ ~Excluded(g) /\ Known(g) /\ ~Skipped(g)) => Maps(all_vmid.dict, g)

C5_Witness ==
    /\ Selected
    /\ all_vmid.fatal = ""
    /\ Keys(all_vmid.dict) = {"100", "102"}
    /\ Excluded(Guest(env, "101"))
    /\ \A g \in Range(env.guests) : Local(g) /\ ~Skipped(g)

HasExcludedTag(g) == Range(g.tags) \cap Range(argp.exclude_tags) # {}

\* C4: the picked guests hold no local guest with one of the exclude tags,
\* named by ID or carrying an include tag or not.
C4_ExcludeTagsWin ==
    (Selected /\ fatal = "") =>
        \A g \in Range(env.guests) :
            (Local(g) /\ HasExcludedTag(g)) => g.vmid \notin Keys(picked_vmid)

C4_Witness ==
    /\ Selected
    /\ fatal = ""
    /\ "100" \in Range(argp.vmid)
    /\ "100" \in Keys(all_vmid.dict)
    /\ HasExcludedTag(Guest(env, "100"))
    /\ Range(Guest(env, "100").tags) \cap Range(argp.tags) # {}
    /\ Keys(picked_vmid) = {"101"}

(***************************************************************************)
(* Properties of the retention                                             *)
(***************************************************************************)

\* remove_snapshot has read the snapshots of guest 100.
Pruned == idx = 2 /\ fatal = ""

\* The names of the guest that the pattern matches.
Matching == {n \in Names(listing["100"]) : Search(n, argp.label) # <<>>}

Max(a, b) == IF a >= b THEN a ELSE b

\* C1: remove_snapshot targets exactly max(0, count - keep) of the names
\* that match the pattern, the oldest by sort key, and never one of the keep
\* newest.
C1_TargetsTheOldest ==
    Pruned =>
        LET old == old_snapshots["100"]
        IN  /\ Len(old) = Max(0, Cardinality(Matching) - argp.keep)
            /\ Cardinality(Range(old)) = Len(old)
            /\ Range(old) \subseteq Matching
            /\ \A o \in Range(old) : \A n \in Matching \ Range(old) :
                  ~StrLess(SortKey(n), SortKey(o))

\* The names create_snapshot composes in the compact and the ISO format.
Composed == {Made("daily", f, t) : f \in {Compact, Iso}, t \in 1..PastInstants}

\* C9: of two names of one label that create_snapshot composed at different
\* times, in the compact or the ISO format, the later has the greater sort
\* key.
C9_SortKeyIsChronological ==
    Pruned =>
        \A a, b \in Composed :
            (a.name \in Names(listing["100"]) /\ b.name \in Names(listing["100"]) /\ a.t < b.t)
                => StrLess(SortKey(Search(a.name, argp.label)), SortKey(Search(b.name, argp.label)))

====
